---- MODULE Spec2Model ----
(***************************************************************************)
(* The field tracker component of src/server/server.js (lines 153-956):    *)
(* startTracking / recordGPSPoint / stopTracking and the controls that     *)
(* reach them, together with the browser objects they hold handles to      *)
(* (geolocation watches, interval timers) and React's effect cleanup.      *)
(*                                                                         *)
(* Units.  Latitude and longitude are offsets on a local grid whose step   *)
(* is 0.5 m of great-circle distance; on the few tens of metres the model  *)
(* covers haversineDistance is the planar distance, kept in millimetres.   *)
(* Accuracy is in metres.  A point's timestamp (Date.now()) is never read  *)
(* by the component and is left out of the point record.                   *)
(*                                                                         *)
(* Nullable values (null in the source) are sequences of length 0 or 1;    *)
(* a null handle (watchId, intervalRef.current) is 0.                      *)
(***************************************************************************)
EXTENDS Integers, Sequences, FiniteSets, TLC

VARIABLES
  isTracking, coordinates, watchId, error, results, gpsAccuracy,
  showInstructions, measurements, currentMeasurement, currentDistance,
  isGpsReady, skippedPointsCount,
  intervalRef, lastRecordedPoint, cumulativeDistance,
  currentPosition, watches, intervals, sessions, effectWatchId, geolocation,
  serverMeasurements, measurementId, response,
  trackerCoordinates, trackerError, trackerWatchId, trackerIsTracking,
  totalDistance, currentPos, trackerWatches, trackerWatchCount

(* The state of the Express server of lines 1-147: its store (the module's *)
(* measurements array, line 9), its id counter (line 10) and the response  *)
(* to the last request.                                                    *)
server == <<serverMeasurements, measurementId, response>>

(* A response, with the route and the :id of the request it answers (0    *)
(* for a route without one).                                               *)
Answer(request, id, status, data) ==
  [request |-> request, id |-> id, status |-> status, data |-> data]

(* No request has been answered yet. *)
NoResponse == Answer("", 0, 0, <<>>)

(* The state of the map-based tracker of                                   *)
(* src/client/src/components/DistanceCalculator.js (lines 39-44; its       *)
(* coordinates, error, watchId and isTracking carry the prefix tracker     *)
(* here), the watches the browser holds for it and the number of watches   *)
(* it has asked for.  A null watchId or currentPos is 0 or <<>>.           *)
tracker == <<trackerCoordinates, trackerError, trackerWatchId,
             trackerIsTracking, totalDistance, currentPos, trackerWatches,
             trackerWatchCount>>

TrackerInit ==
  /\ trackerCoordinates = <<>>
  /\ trackerError = ""
  /\ trackerWatchId = 0
  /\ trackerIsTracking = FALSE
  /\ totalDistance = 0
  /\ currentPos = <<>>
  /\ trackerWatches = {}
  /\ trackerWatchCount = 0

vars == <<isTracking, coordinates, watchId, error, results, gpsAccuracy,
          showInstructions, measurements, currentMeasurement, currentDistance,
          isGpsReady, skippedPointsCount,
          intervalRef, lastRecordedPoint, cumulativeDistance,
          currentPosition, watches, intervals, sessions, effectWatchId,
          geolocation, server, tracker>>

reactState == <<isTracking, coordinates, watchId, error, results, gpsAccuracy,
                showInstructions, measurements, currentMeasurement,
                currentDistance, isGpsReady, skippedPointsCount>>

refs == <<intervalRef, lastRecordedPoint, cumulativeDistance>>

----------------------------------------------------------------------------
(* Bounds *)

MaxSessions == 2
MaxEvals == 3
MaxWalk == 4
MaxCap == 2
MaxSkipped == 1
MaxPosts == 3
MaxClock == 2
MaxLegs == 4
MaxFixes == 3

(* Configuration constants of the component *)

MIN_DISTANCE_THRESHOLD == 2500
ACCURACY_THRESHOLD == 10
POLYGON_CLOSURE_THRESHOLD == 5000
MAX_COORDINATES == 10000
PROJECTION_RANGE == 2223

(* The fixes the location source can deliver: a corner A, a point 2 m from *)
(* it (B), a point exactly 2.5 m from it with accuracy exactly at the      *)
(* threshold (C), and a point 6 m away read with accuracy 11 m (X).        *)
Fix(la, lo, acc) == [latitude |-> la, longitude |-> lo, accuracy |-> acc]

Positions ==
  { Fix(0, 0, 5), Fix(0, 4, 5), Fix(0, 5, 10), Fix(12, 0, 11) }

ErrorCodes == 1..3

SessionIds == 1..MaxSessions

----------------------------------------------------------------------------
(* haversineDistance *)

Abs(x) == IF x < 0 THEN -x ELSE x

RECURSIVE SqrtSearch(_, _, _)
SqrtSearch(n, lo, hi) ==
  IF hi - lo <= 1 THEN lo
  ELSE LET mid == (lo + hi) \div 2
       IN  IF mid * mid <= n THEN SqrtSearch(n, mid, hi)
                             ELSE SqrtSearch(n, lo, mid)

(* Millimetres: to the millimetre up to 22 m, to 5 cm beyond, where the    *)
(* square of the millimetres no longer fits a machine integer.             *)
haversineDistance(lat1, lng1, lat2, lng2) ==
  LET dLat == lat2 - lat1
      dLng == lng2 - lng1
      squared == dLat * dLat + dLng * dLng
  IN  IF squared <= 2000
      THEN SqrtSearch(250000 * squared, 0, 500 * (Abs(dLat) + Abs(dLng)) + 1)
      ELSE 50 * SqrtSearch(100 * squared, 0, 10 * (Abs(dLat) + Abs(dLng)) + 1)

----------------------------------------------------------------------------
Init ==
  /\ isTracking = FALSE
  /\ coordinates = <<>>
  /\ watchId = 0
  /\ error = ""
  /\ results = <<>>
  /\ gpsAccuracy = <<>>
  /\ showInstructions = FALSE
  /\ measurements = <<>>
  /\ currentMeasurement = 1
  /\ currentDistance = 0
  /\ isGpsReady = FALSE
  /\ skippedPointsCount = 0
  /\ intervalRef = 0
  /\ lastRecordedPoint = <<>>
  /\ cumulativeDistance = 0
  /\ currentPosition = [s \in SessionIds |-> <<>>]
  /\ watches = {}
  /\ intervals = {}
  /\ sessions = 0
  /\ effectWatchId = 0
  /\ geolocation \in BOOLEAN
  /\ serverMeasurements = <<>>
  /\ measurementId = 1
  /\ response = NoResponse
  /\ TrackerInit

----------------------------------------------------------------------------
(* The effect of lines 178-187.  Its cleanup is the closure registered by  *)
(* the last run of the effect: it holds the watchId of that render         *)
(* (effectWatchId) and reads intervalRef.current when it runs.  React runs *)
(* it when a render with another watchId has been committed: on its own    *)
(* (FlushPassiveEffects), and at the latest before the next render, so     *)
(* every handler that sets state runs the pending cleanup first.           *)

EffectPending == effectWatchId # watchId

CleanupWatches(ws) ==
  IF effectWatchId # 0 THEN ws \ {effectWatchId} ELSE ws

CleanupIntervals_keepsInterval(is, ref) == is

CleanupIntervals(is, ref) ==
  IF ref # 0 THEN is \ {ref} ELSE is

FlushedWatches(ws) == IF EffectPending THEN CleanupWatches(ws) ELSE ws

FlushedIntervals(is, ref) ==
  IF EffectPending THEN CleanupIntervals(is, ref) ELSE is

(* The closure of a session is reachable only from its watch and its       *)
(* interval: once both are gone its currentPosition is garbage, and the    *)
(* model drops it.                                                         *)
Collected(cp, ws, is) ==
  [s \in SessionIds |-> IF s \in ws \cup is THEN cp[s] ELSE <<>>]

FlushPassiveEffects ==
  /\ EffectPending
  /\ watches' = CleanupWatches(watches)
  /\ intervals' = CleanupIntervals(intervals, intervalRef)
  /\ effectWatchId' = watchId
  /\ currentPosition' = Collected(currentPosition, watches', intervals')
  /\ UNCHANGED <<reactState, refs, sessions, geolocation, server, tracker>>

(* A handler that sets state and leaves watches and timers alone; cp is    *)
(* currentPosition as the handler leaves it.                               *)
Render(cp) ==
  /\ watches' = FlushedWatches(watches)
  /\ intervals' = FlushedIntervals(intervals, intervalRef)
  /\ effectWatchId' = watchId
  /\ currentPosition' = Collected(cp, watches', intervals')

----------------------------------------------------------------------------
(* Controls *)

showInstructionsDialog ==
  /\ ~isTracking
  /\ showInstructions' = TRUE
  /\ Render(currentPosition)
  /\ UNCHANGED <<isTracking, coordinates, watchId, error, results, gpsAccuracy,
                 measurements, currentMeasurement, currentDistance, isGpsReady,
                 skippedPointsCount, refs, sessions,
                 geolocation, server, tracker>>

hideInstructionsDialog ==
  /\ showInstructions
  /\ showInstructions' = FALSE
  /\ Render(currentPosition)
  /\ UNCHANGED <<isTracking, coordinates, watchId, error, results, gpsAccuracy,
                 measurements, currentMeasurement, currentDistance, isGpsReady,
                 skippedPointsCount, refs, sessions,
                 geolocation, server, tracker>>

----------------------------------------------------------------------------
(* startTracking *)

ResetTrackingState_keepsLastPoint ==
  /\ error' = ""
  /\ results' = <<>>
  /\ coordinates' = <<>>
  /\ gpsAccuracy' = <<>>
  /\ currentDistance' = 0
  /\ isGpsReady' = FALSE
  /\ skippedPointsCount' = 0
  /\ UNCHANGED lastRecordedPoint
  /\ cumulativeDistance' = 0

ResetTrackingState_keepsDistance ==
  /\ error' = ""
  /\ results' = <<>>
  /\ coordinates' = <<>>
  /\ gpsAccuracy' = <<>>
  /\ currentDistance' = 0
  /\ isGpsReady' = FALSE
  /\ skippedPointsCount' = 0
  /\ lastRecordedPoint' = <<>>
  /\ UNCHANGED cumulativeDistance

(* "Reset all tracking state" (lines 216-225). *)
ResetTrackingState ==
  /\ error' = ""
  /\ results' = <<>>
  /\ coordinates' = <<>>
  /\ gpsAccuracy' = <<>>
  /\ currentDistance' = 0
  /\ isGpsReady' = FALSE
  /\ skippedPointsCount' = 0
  /\ lastRecordedPoint' = <<>>
  /\ cumulativeDistance' = 0

startTracking ==
  /\ showInstructions
  /\ IF ~geolocation
     THEN /\ error' = "no_gps"
          /\ Render(currentPosition)
          /\ UNCHANGED <<isTracking, coordinates, watchId, results,
                         gpsAccuracy, showInstructions, measurements,
                         currentMeasurement, currentDistance, isGpsReady,
                         skippedPointsCount, refs, sessions,
                         geolocation, server, tracker>>
     ELSE /\ sessions < MaxSessions
          /\ LET id == sessions + 1
             IN  /\ ResetTrackingState
                 /\ isTracking' = TRUE
                 /\ sessions' = id
                 /\ watchId' = id
                 /\ intervalRef' = id
                 /\ showInstructions' = FALSE
                 /\ watches' = FlushedWatches(watches) \cup {id}
                 /\ intervals' = FlushedIntervals(intervals, intervalRef) \cup {id}
                 /\ effectWatchId' = watchId
                 /\ currentPosition' =
                      Collected(currentPosition, watches', intervals')
                 /\ UNCHANGED <<measurements, currentMeasurement, geolocation, server, tracker>>

(* The success callback of the watch of session w (lines 240-245). *)
watchSuccess(w, position) ==
  /\ w \in watches
  /\ gpsAccuracy' = <<position.accuracy>>
  /\ isGpsReady' = TRUE
  /\ error' = ""
  /\ Render([currentPosition EXCEPT ![w] = <<position>>])
  /\ UNCHANGED <<isTracking, coordinates, watchId, results, showInstructions,
                 measurements, currentMeasurement, currentDistance,
                 skippedPointsCount, refs, sessions, geolocation, server, tracker>>

ErrorMessage(code) ==
  CASE code = 1 -> "permission_denied"
    [] code = 2 -> "position_unavailable"
    [] code = 3 -> "timeout"
    [] OTHER -> "gps_error"

(* The error callback of the watch of session w (lines 246-263). *)
watchError(w, code) ==
  /\ w \in watches
  /\ error' = ErrorMessage(code)
  /\ isTracking' = FALSE
  /\ isGpsReady' = FALSE
  /\ Render(currentPosition)
  /\ UNCHANGED <<coordinates, watchId, results, gpsAccuracy, showInstructions,
                 measurements, currentMeasurement, currentDistance,
                 skippedPointsCount, refs, sessions,
                 geolocation, server, tracker>>

----------------------------------------------------------------------------
(* recordGPSPoint *)

PoorAccuracy_above11(accuracy) == accuracy > ACCURACY_THRESHOLD + 1

PoorAccuracy_atThreshold(accuracy) == accuracy >= ACCURACY_THRESHOLD

PoorAccuracy(accuracy) == accuracy > ACCURACY_THRESHOLD

TooClose_atThreshold(distance) == distance <= MIN_DISTANCE_THRESHOLD

TooClose_zeroPasses(distance) ==
  0 < distance /\ distance < MIN_DISTANCE_THRESHOLD

TooClose(distance) == distance < MIN_DISTANCE_THRESHOLD

SkipCounted_twice == skippedPointsCount' = skippedPointsCount + 2

(* setSkippedPointsCount(prev => prev + 1) *)
SkipCounted == skippedPointsCount' = skippedPointsCount + 1

newPointOf(position) ==
  [lat |-> position.latitude, lng |-> position.longitude,
   accuracy |-> position.accuracy]

DistanceToLast(newPoint) ==
  haversineDistance(lastRecordedPoint[1].lat, lastRecordedPoint[1].lng,
                    newPoint.lat, newPoint.lng)

TrimmedTo_keepsOldest(newCoords, cap) ==
  IF Len(newCoords) > cap THEN SubSeq(newCoords, 1, cap) ELSE newCoords

(* newCoords.length > cap ? newCoords.slice(-cap) : newCoords *)
TrimmedTo(newCoords, cap) ==
  IF Len(newCoords) > cap
  THEN SubSeq(newCoords, Len(newCoords) - cap + 1, Len(newCoords))
  ELSE newCoords

(* recordGPSPoint with the capacity of the coordinates array as a          *)
(* parameter.                                                              *)
recordGPSPointUpTo(position, cap) ==
  LET newPoint == newPointOf(position)
  IN  IF PoorAccuracy(position.accuracy)
      THEN /\ SkipCounted
           /\ UNCHANGED <<coordinates, lastRecordedPoint, cumulativeDistance,
                          currentDistance>>
      ELSE IF lastRecordedPoint # <<>> /\ TooClose(DistanceToLast(newPoint))
      THEN /\ SkipCounted
           /\ UNCHANGED <<coordinates, lastRecordedPoint, cumulativeDistance,
                          currentDistance>>
      ELSE /\ IF lastRecordedPoint # <<>>
              THEN /\ cumulativeDistance' =
                        cumulativeDistance + DistanceToLast(newPoint)
                   /\ currentDistance' =
                        cumulativeDistance + DistanceToLast(newPoint)
              ELSE UNCHANGED <<cumulativeDistance, currentDistance>>
           /\ coordinates' = TrimmedTo(Append(coordinates, newPoint), cap)
           /\ lastRecordedPoint' = <<newPoint>>
           /\ UNCHANGED skippedPointsCount

recordGPSPoint(position) == recordGPSPointUpTo(position, MAX_COORDINATES)

intervalCallback_countsEmptyTick(s) ==
  IF currentPosition[s] # <<>>
  THEN /\ Len(coordinates) + skippedPointsCount < MaxEvals
       /\ recordGPSPoint(currentPosition[s][1])
       /\ Render(currentPosition)
       /\ UNCHANGED <<isTracking, watchId, error, results, gpsAccuracy,
                      showInstructions, measurements, currentMeasurement,
                      isGpsReady, intervalRef, sessions,
                      geolocation, server, tracker>>
  ELSE /\ skippedPointsCount < MaxEvals
       /\ SkipCounted
       /\ Render(currentPosition)
       /\ UNCHANGED <<isTracking, coordinates, watchId, error, results,
                      gpsAccuracy, showInstructions, measurements,
                      currentMeasurement, currentDistance, isGpsReady, refs,
                      sessions, geolocation, server, tracker>>

(* The interval callback of session s (lines 268-272): it samples the      *)
(* currentPosition of its own closure.                                     *)
intervalCallback(s) ==
  IF currentPosition[s] # <<>>
  THEN /\ Len(coordinates) + skippedPointsCount < MaxEvals
       /\ recordGPSPoint(currentPosition[s][1])
       /\ Render(currentPosition)
       /\ UNCHANGED <<isTracking, watchId, error, results, gpsAccuracy,
                      showInstructions, measurements, currentMeasurement,
                      isGpsReady, intervalRef, sessions,
                      geolocation, server, tracker>>
  ELSE UNCHANGED vars

(* A tick of an interval the browser still holds. *)
Tick(s) ==
  /\ s \in intervals
  /\ intervalCallback(s)

(* The interval callback of the session in progress, run directly: the     *)
(* recording step on its own, whatever has become of the interval.         *)
SampleTick ==
  /\ isTracking
  /\ intervalRef # 0
  /\ currentPosition[intervalRef] # <<>>
  /\ intervalCallback(intervalRef)

----------------------------------------------------------------------------
(* Closing, perimeter and area (lines 367-512).  Lengths are millimetres,  *)
(* areas are square centimetres; toFixed rounds to the nearest unit of the *)
(* last digit kept.                                                        *)

createClosedPolygon_atThreshold(coords) ==
  IF Len(coords) < 3 THEN coords
  ELSE LET firstPoint == coords[1]
           lastPoint == coords[Len(coords)]
           closingDistance == haversineDistance(firstPoint.lat, firstPoint.lng,
                                                lastPoint.lat, lastPoint.lng)
       IN  IF closingDistance >= POLYGON_CLOSURE_THRESHOLD
           THEN Append(coords, firstPoint)
           ELSE coords

createClosedPolygon(coords) ==
  IF Len(coords) < 3 THEN coords
  ELSE LET firstPoint == coords[1]
           lastPoint == coords[Len(coords)]
           closingDistance == haversineDistance(firstPoint.lat, firstPoint.lng,
                                                lastPoint.lat, lastPoint.lng)
       IN  IF closingDistance > POLYGON_CLOSURE_THRESHOLD
           THEN Append(coords, firstPoint)
           ELSE coords

RECURSIVE PerimeterFrom(_, _)
PerimeterFrom(closedCoords, i) ==
  IF i > Len(closedCoords) - 1 THEN 0
  ELSE haversineDistance(closedCoords[i].lat, closedCoords[i].lng,
                         closedCoords[i + 1].lat, closedCoords[i + 1].lng)
       + PerimeterFrom(closedCoords, i + 1)

calculatePerimeter_wrapsAround(closedCoords) ==
  IF Len(closedCoords) < 2 THEN 0
  ELSE PerimeterFrom(closedCoords, 1)
       + haversineDistance(closedCoords[Len(closedCoords)].lat,
                           closedCoords[Len(closedCoords)].lng,
                           closedCoords[1].lat, closedCoords[1].lng)

calculatePerimeter(closedCoords) ==
  IF Len(closedCoords) < 2 THEN 0 ELSE PerimeterFrom(closedCoords, 1)

(* The shoelace sum of both area functions: consecutive pairs only, in     *)
(* grid steps squared.                                                     *)
RECURSIVE ShoelaceFrom(_, _)
ShoelaceFrom(c, i) ==
  IF i > Len(c) - 1 THEN 0
  ELSE (c[i].lng * c[i + 1].lat) - (c[i + 1].lng * c[i].lat)
       + ShoelaceFrom(c, i + 1)

(* x * k / d rounded down, without forming x * k. *)
RoundedDown(x, k, d) == (x \div d) * k + ((x % d) * k) \div d

(* Flat map: 111000 m per degree against the 111195 m per degree of the    *)
(* haversine radius, so a grid step is 0.49912 m and half a step squared   *)
(* is 1245.6 cm2.                                                          *)
calculateAreaWithShoelace(closedCoords) ==
  RoundedDown(Abs(ShoelaceFrom(closedCoords, 1)), 12456, 10)

(* UTM plane near the central meridian: scale 0.9996, half a step squared  *)
(* is 1249.0 cm2.  When proj4 throws, the catch of lines 483-486 returns   *)
(* the flat area.                                                          *)
calculateAreaWithProjection(closedCoords, projectionThrows) ==
  IF projectionThrows
  THEN calculateAreaWithShoelace(closedCoords)
  ELSE RoundedDown(Abs(ShoelaceFrom(closedCoords, 1)), 12490, 10)

SetMax(S) == CHOOSE m \in S : \A x \in S : x <= m

SetMin(S) == CHOOSE m \in S : \A x \in S : m <= x

useProjForLargeFields_fromThreshold(closedCoords) ==
  LET lats == {closedCoords[i].lat : i \in 1..Len(closedCoords)}
      lngs == {closedCoords[i].lng : i \in 1..Len(closedCoords)}
      latRange == SetMax(lats) - SetMin(lats)
      lngRange == SetMax(lngs) - SetMin(lngs)
  IN  latRange >= PROJECTION_RANGE \/ lngRange >= PROJECTION_RANGE

useProjForLargeFields(closedCoords) ==
  LET lats == {closedCoords[i].lat : i \in 1..Len(closedCoords)}
      lngs == {closedCoords[i].lng : i \in 1..Len(closedCoords)}
      latRange == SetMax(lats) - SetMin(lats)
      lngRange == SetMax(lngs) - SetMin(lngs)
  IN  latRange > PROJECTION_RANGE \/ lngRange > PROJECTION_RANGE

calculateArea(closedCoords, projectionThrows) ==
  IF Len(closedCoords) < 3 THEN 0
  ELSE IF useProjForLargeFields(closedCoords)
       THEN calculateAreaWithProjection(closedCoords, projectionThrows)
       ELSE calculateAreaWithShoelace(closedCoords)

RECURSIVE AccuracySum(_, _)
AccuracySum(coords, i) ==
  IF i > Len(coords) THEN 0 ELSE coords[i].accuracy + AccuracySum(coords, i + 1)

(* x / d rounded to the nearest integer, halves up (toFixed). *)
Rounded(x, d) == (2 * x + d) \div (2 * d)

(* x * k / d rounded likewise, without forming x * k. *)
RoundedScaled(x, k, d) == (x \div d) * k + Rounded((x % d) * k, d)

newResultOf_liveDistance(coords, projectionThrows) ==
  LET closedPolygon == createClosedPolygon(coords)
      perimeter == calculatePerimeter(closedPolygon)
      areaInSquareMeters == calculateArea(closedPolygon, projectionThrows)
  IN  [distance |-> Rounded(currentDistance, 10),
       areaSquareMeters |-> Rounded(areaInSquareMeters, 100),
       acres |-> Rounded(areaInSquareMeters, 4047),
       hectares |-> Rounded(areaInSquareMeters, 10000),
       guntalu |-> RoundedScaled(areaInSquareMeters, 100, 10117),
       measurementNumber |-> currentMeasurement,
       pointsRecorded |-> Len(coords),
       closedPolygonPoints |-> Len(closedPolygon),
       avgAccuracy |-> IF Len(coords) > 0
                       THEN Rounded(AccuracySum(coords, 1) * 10, Len(coords))
                       ELSE 0,
       skippedPoints |-> skippedPointsCount]

newResultOf_countsClosingPoint(coords, projectionThrows) ==
  LET closedPolygon == createClosedPolygon(coords)
      perimeter == calculatePerimeter(closedPolygon)
      areaInSquareMeters == calculateArea(closedPolygon, projectionThrows)
  IN  [distance |-> Rounded(perimeter, 10),
       areaSquareMeters |-> Rounded(areaInSquareMeters, 100),
       acres |-> Rounded(areaInSquareMeters, 4047),
       hectares |-> Rounded(areaInSquareMeters, 10000),
       guntalu |-> RoundedScaled(areaInSquareMeters, 100, 10117),
       measurementNumber |-> currentMeasurement,
       pointsRecorded |-> Len(closedPolygon),
       closedPolygonPoints |-> Len(closedPolygon),
       avgAccuracy |-> IF Len(coords) > 0
                       THEN Rounded(AccuracySum(coords, 1) * 10, Len(coords))
                       ELSE 0,
       skippedPoints |-> skippedPointsCount]

newResultOf(coords, projectionThrows) ==
  LET closedPolygon == createClosedPolygon(coords)
      perimeter == calculatePerimeter(closedPolygon)
      areaInSquareMeters == calculateArea(closedPolygon, projectionThrows)
  IN  [distance |-> Rounded(perimeter, 10),
       areaSquareMeters |-> Rounded(areaInSquareMeters, 100),
       acres |-> Rounded(areaInSquareMeters, 4047),
       hectares |-> Rounded(areaInSquareMeters, 10000),
       guntalu |-> RoundedScaled(areaInSquareMeters, 100, 10117),
       measurementNumber |-> currentMeasurement,
       pointsRecorded |-> Len(coords),
       closedPolygonPoints |-> Len(closedPolygon),
       avgAccuracy |-> IF Len(coords) > 0
                       THEN Rounded(AccuracySum(coords, 1) * 10, Len(coords))
                       ELSE 0,
       skippedPoints |-> skippedPointsCount]

calculateResultsWithCoordinates_replacesList(coords) ==
  \E projectionThrows \in BOOLEAN :
    /\ results' = <<newResultOf(coords, projectionThrows)>>
    /\ measurements' = <<newResultOf(coords, projectionThrows)>>

(* Whether proj4 throws is the library's choice. *)
calculateResultsWithCoordinates(coords) ==
  \E projectionThrows \in BOOLEAN :
    /\ results' = <<newResultOf(coords, projectionThrows)>>
    /\ measurements' =
         Append(measurements, newResultOf(coords, projectionThrows))

----------------------------------------------------------------------------
(* stopTracking, discardCurrentMeasurement, startNewMeasurement *)

WatchesAfterStop_notCleared == FlushedWatches(watches)

(* clearWatch(watchId) of lines 332-335 *)
WatchesAfterStop ==
  IF watchId # 0 THEN FlushedWatches(watches) \ {watchId}
                 ELSE FlushedWatches(watches)

(* clearInterval(intervalRef.current) of lines 336-339 *)
IntervalsAfterStop ==
  IF intervalRef # 0
  THEN FlushedIntervals(intervals, intervalRef) \ {intervalRef}
  ELSE FlushedIntervals(intervals, intervalRef)

TooFewPoints_two(coords) == Len(coords) < 2

(* coordinates.length < 3 (line 343) *)
TooFewPoints(coords) == Len(coords) < 3

stopTracking ==
  /\ isTracking
  /\ isGpsReady
  /\ watches' = WatchesAfterStop
  /\ watchId' = 0
  /\ intervals' = IntervalsAfterStop
  /\ intervalRef' = 0
  /\ effectWatchId' = watchId
  /\ currentPosition' = Collected(currentPosition, watches', intervals')
  /\ isTracking' = FALSE
  /\ IF TooFewPoints(coordinates)
     THEN /\ error' = "min_points"
          /\ UNCHANGED <<results, measurements>>
     ELSE /\ calculateResultsWithCoordinates(coordinates)
          /\ UNCHANGED error
  /\ UNCHANGED <<coordinates, gpsAccuracy, showInstructions, currentMeasurement,
                 currentDistance, isGpsReady, skippedPointsCount,
                 lastRecordedPoint, cumulativeDistance,
                 sessions, geolocation, server, tracker>>

discardCurrentMeasurement ==
  /\ error = "min_points"
  /\ error' = ""
  /\ coordinates' = <<>>
  /\ currentDistance' = 0
  /\ skippedPointsCount' = 0
  /\ lastRecordedPoint' = <<>>
  /\ cumulativeDistance' = 0
  /\ showInstructions' = TRUE
  /\ Render(currentPosition)
  /\ UNCHANGED <<isTracking, watchId, results, gpsAccuracy, measurements,
                 currentMeasurement, isGpsReady, intervalRef,
                 sessions, geolocation, server, tracker>>

startNewMeasurement ==
  /\ results # <<>>
  /\ currentMeasurement' = currentMeasurement + 1
  /\ results' = <<>>
  /\ coordinates' = <<>>
  /\ error' = ""
  /\ lastRecordedPoint' = <<>>
  /\ showInstructions' = TRUE
  /\ Render(currentPosition)
  /\ UNCHANGED <<isTracking, watchId, gpsAccuracy, measurements,
                 currentDistance, isGpsReady, skippedPointsCount, intervalRef,
                 cumulativeDistance, sessions, geolocation, server, tracker>>

----------------------------------------------------------------------------
(* calculateAverageResults (lines 574-588), evaluated at every render from *)
(* the stored results.  A stored areaSquareMeters counts hundredths of a   *)
(* square metre and a stored distance counts centimetres (toFixed(2) read  *)
(* back by parseFloat); acres, hectares and guntalu count ten-thousandths. *)

RECURSIVE SumOver(_, _, _)
SumOver(ms, field, i) ==
  IF i > Len(ms) THEN 0 ELSE ms[i][field] + SumOver(ms, field, i + 1)

TooFewMeasurements_one(ms) == Len(ms) < 1

TooFewMeasurements(ms) == Len(ms) < 2

averageOf_averagesConversions(ms) ==
  LET n == Len(ms)
      areaSum == SumOver(ms, "areaSquareMeters", 1)
      distanceSum == SumOver(ms, "distance", 1)
  IN  [areaSquareMeters |-> Rounded(areaSum, n),
       distance |-> Rounded(distanceSum, n),
       acres |-> Rounded(SumOver(ms, "acres", 1), n),
       hectares |-> Rounded(SumOver(ms, "hectares", 1), n),
       guntalu |-> Rounded(SumOver(ms, "guntalu", 1), n),
       measurementCount |-> n]

averageOf(ms) ==
  LET n == Len(ms)
      areaSum == SumOver(ms, "areaSquareMeters", 1)
      distanceSum == SumOver(ms, "distance", 1)
  IN  [areaSquareMeters |-> Rounded(areaSum, n),
       distance |-> Rounded(distanceSum, n),
       acres |-> RoundedScaled(areaSum, 100, n * 4047),
       hectares |-> Rounded(areaSum, n * 100),
       guntalu |-> RoundedScaled(areaSum, 10000, n * 10117),
       measurementCount |-> n]

calculateAverageResults ==
  IF TooFewMeasurements(measurements) THEN <<>> ELSE <<averageOf(measurements)>>

----------------------------------------------------------------------------
(* The component as the browser and React drive it. *)
SchedNext ==
  \/ showInstructionsDialog
  \/ hideInstructionsDialog
  \/ startTracking
  \/ \E w \in SessionIds, position \in Positions : watchSuccess(w, position)
  \/ \E w \in SessionIds, code \in ErrorCodes : watchError(w, code)
  \/ \E s \in SessionIds : Tick(s)
  \/ FlushPassiveEffects
  \/ stopTracking
  \/ discardCurrentMeasurement

SchedSpec == Init /\ [][SchedNext]_vars

(* The component with the recording step driven directly. *)
Next ==
  \/ SchedNext
  \/ SampleTick
  \/ startNewMeasurement

Spec == Init /\ [][Next]_vars

----------------------------------------------------------------------------
(* Measuring at stop.  The fixes of Positions lie on one line, so every    *)
(* field Spec records has area 0.  SurveySpec starts where a session of    *)
(* Spec stands after it has recorded a walk over the corners below, with   *)
(* nothing or one earlier result stored, and follows it through stop,      *)
(* review and discard.                                                     *)
(*                                                                         *)
(* Corners: A, B 5 m east of A, C 6 m north of B, and three corners far to *)
(* the north-east, half a metre apart: F 2223 steps north and east of A    *)
(* (the widest range still under 0.01 degree), G 2224 steps north of A,    *)
(* H 2224 steps east of A.                                                 *)

SurveyFixes ==
  { Fix(2, 3, 5), Fix(2, 13, 5), Fix(14, 13, 5),
    Fix(2225, 2226, 5), Fix(2226, 2226, 8), Fix(2225, 2227, 5) }

(* What recordGPSPoint accepts after last. *)
Acceptable(last, position) ==
  /\ ~PoorAccuracy(position.accuracy)
  /\ ~TooClose(haversineDistance(last.lat, last.lng,
                                position.latitude, position.longitude))

RECURSIVE Walks(_)
Walks(n) ==
  IF n = 1
  THEN {<<newPointOf(position)>> :
          position \in {f \in SurveyFixes : ~PoorAccuracy(f.accuracy)}}
  ELSE {Append(x[1], newPointOf(x[2])) :
          x \in {y \in Walks(n - 1) \X SurveyFixes :
                   Acceptable(y[1][Len(y[1])], y[2])}}

EarlierWalks ==
  { <<newPointOf(Fix(2, 3, 5)), newPointOf(Fix(2, 13, 5)),
      newPointOf(Fix(14, 13, 5))>>,
    <<newPointOf(Fix(2, 13, 5)), newPointOf(Fix(14, 13, 5)),
      newPointOf(Fix(2226, 2226, 8))>> }

SurveyInit ==
  /\ geolocation = TRUE
  /\ serverMeasurements = <<>>
  /\ measurementId = 1
  /\ response = NoResponse
  /\ TrackerInit
  /\ skippedPointsCount \in 0..MaxSkipped
  /\ \E n \in 1..MaxWalk : coordinates \in Walks(n)
  /\ lastRecordedPoint = <<coordinates[Len(coordinates)]>>
  /\ cumulativeDistance = calculatePerimeter(coordinates)
  /\ currentDistance = cumulativeDistance
  /\ \/ /\ currentMeasurement = 1
        /\ measurements = <<>>
     \/ /\ currentMeasurement = 2
        /\ \E w \in EarlierWalks :
             measurements =
               <<[newResultOf(w, FALSE) EXCEPT !.measurementNumber = 1,
                                               !.skippedPoints = 0]>>
  /\ sessions = Len(measurements) + 1
  /\ isTracking = TRUE
  /\ watchId = sessions
  /\ intervalRef = sessions
  /\ watches = {sessions}
  /\ intervals = {}
  /\ effectWatchId = sessions
  /\ currentPosition =
       [s \in SessionIds |->
          IF s = sessions
          THEN <<Fix(lastRecordedPoint[1].lat, lastRecordedPoint[1].lng,
                     lastRecordedPoint[1].accuracy)>>
          ELSE <<>>]
  /\ gpsAccuracy = <<lastRecordedPoint[1].accuracy>>
  /\ isGpsReady = TRUE
  /\ error = ""
  /\ results = <<>>
  /\ showInstructions = FALSE

SurveyNext ==
  \/ stopTracking
  \/ FlushPassiveEffects
  \/ discardCurrentMeasurement
  \/ startNewMeasurement
  \/ showInstructionsDialog
  \/ hideInstructionsDialog

SurveySpec == SurveyInit /\ [][SurveyNext]_vars

----------------------------------------------------------------------------
(* The Express server (lines 1-147).  It is a program of its own: the      *)
(* component never calls it.  A stored measurement is a function from      *)
(* field names to values; areaSquareMeters counts 0.01 m2 and avgAccuracy  *)
(* tenths of a metre as in the component's results, a timestamp is the     *)
(* server's clock reading, and a request body carries whatever fields the  *)
(* client sent.                                                            *)

component == <<reactState, refs, currentPosition, watches, intervals,
               sessions, effectWatchId, geolocation>>

(* Request bodies: a result as the component builds it (the fields the     *)
(* server never reads left out), an empty body, and a body that brings an  *)
(* id and a timestamp of its own.                                          *)
Bodies ==
  { [areaSquareMeters |-> 1495, pointsRecorded |-> 3, skippedPoints |-> 1,
     avgAccuracy |-> 50],
    [f \in {} |-> 0],
    [id |-> 2, timestamp |-> 0, pointsRecorded |-> 1, skippedPoints |-> 2] }

(* The ids a request path can name (parseInt of the :id segment). *)
RequestIds == 1..(MaxPosts + 1)

(* { id: measurementId++, ...req.body, timestamp: ..., location: ... }     *)
(* (lines 19-24): a later entry of the object literal replaces an earlier  *)
(* one of the same name.                                                   *)
measurementOf(body, now) ==
  [f \in {"id", "timestamp", "location"} \cup DOMAIN body |->
     IF f = "timestamp" THEN now
     ELSE IF f = "location" THEN "Unknown"
     ELSE IF f \in DOMAIN body THEN body[f]
     ELSE measurementId]

(* POST /api/measurements (lines 17-39) *)
postMeasurement(body, now) ==
  /\ measurementId <= MaxPosts
  /\ serverMeasurements' = Append(serverMeasurements, measurementOf(body, now))
  /\ measurementId' = measurementId + 1
  /\ response' = Answer("POST /api/measurements", 0, 201,
                       measurementOf(body, now))
  /\ UNCHANGED <<component, tracker>>

(* measurements.sort((a, b) => new Date(b.timestamp) - new Date(a.timestamp)) *)
(* (line 45): newest first, equal timestamps in their stored order; the    *)
(* array is sorted in place.                                               *)
RECURSIVE InsertByTimestamp(_, _)
InsertByTimestamp(m, sorted) ==
  IF sorted = <<>> THEN <<m>>
  ELSE IF m.timestamp > sorted[1].timestamp THEN <<m>> \o sorted
  ELSE <<sorted[1]>> \o InsertByTimestamp(m, Tail(sorted))

RECURSIVE SortedByTimestamp(_)
SortedByTimestamp(ms) ==
  IF ms = <<>> THEN <<>>
  ELSE InsertByTimestamp(ms[Len(ms)],
                         SortedByTimestamp(SubSeq(ms, 1, Len(ms) - 1)))

(* GET /api/measurements (lines 41-55) *)
getMeasurements ==
  /\ serverMeasurements' = SortedByTimestamp(serverMeasurements)
  /\ response' = Answer("GET /api/measurements", 0, 200, serverMeasurements')
  /\ UNCHANGED <<measurementId, component, tracker>>

(* measurements.findIndex(m => m.id === id) (lines 59, 83): the first      *)
(* index holding that id, 0 for none.                                      *)
findIndex(ms, id) ==
  IF \E i \in 1..Len(ms) : ms[i].id = id
  THEN CHOOSE i \in 1..Len(ms) :
         /\ ms[i].id = id
         /\ \A j \in 1..(i - 1) : ms[j].id # id
  ELSE 0

(* GET /api/measurements/:id (lines 57-78) *)
getMeasurement(id) ==
  /\ response' =
       IF findIndex(serverMeasurements, id) = 0
       THEN Answer("GET /api/measurements/:id", id, 404, <<>>)
       ELSE Answer("GET /api/measurements/:id", id, 200,
                   serverMeasurements[findIndex(serverMeasurements, id)])
  /\ UNCHANGED <<serverMeasurements, measurementId, component, tracker>>

(* measurements.splice(index, 1) (line 92) *)
splice(ms, index) == SubSeq(ms, 1, index - 1) \o SubSeq(ms, index + 1, Len(ms))

(* DELETE /api/measurements/:id (lines 80-103) *)
deleteMeasurement(id) ==
  LET index == findIndex(serverMeasurements, id)
  IN  /\ IF index = 0
         THEN /\ response' =
                   Answer("DELETE /api/measurements/:id", id, 404, <<>>)
              /\ UNCHANGED serverMeasurements
         ELSE /\ serverMeasurements' = splice(serverMeasurements, index)
              /\ response' =
                   Answer("DELETE /api/measurements/:id", id, 200, <<>>)
      /\ UNCHANGED <<measurementId, component, tracker>>

FieldOrZero_orOne(m, field) == IF field \in DOMAIN m THEN m[field] ELSE 1

(* m.field || 0 (lines 109-116) *)
FieldOrZero(m, field) == IF field \in DOMAIN m THEN m[field] ELSE 0

RECURSIVE Total(_, _)
Total(ms, field) ==
  IF ms = <<>> THEN 0
  ELSE FieldOrZero(ms[1], field) + Total(Tail(ms), field)

dataQuality_ofSkipped(accepted, skipped) ==
  IF skipped > 0 THEN Rounded(1000 * skipped, accepted + skipped) ELSE 1000

(* dataQuality (lines 131-135), in tenths of a percent *)
dataQuality(accepted, skipped) ==
  IF skipped > 0 THEN Rounded(1000 * accepted, accepted + skipped) ELSE 1000

(* The data of GET /api/stats (lines 107-137): areas count 0.01 m2, acres  *)
(* and hectares 0.0001, the averages of points and accuracy tenths.        *)
statsOf(ms) ==
  LET totalMeasurements == Len(ms)
      totalArea == Total(ms, "areaSquareMeters")
      totalPoints == Total(ms, "pointsRecorded")
      totalSkippedPoints == Total(ms, "skippedPoints")
  IN  [totalMeasurements |-> totalMeasurements,
       totalArea |-> totalArea,
       averageArea |->
         IF totalMeasurements > 0 THEN Rounded(totalArea, totalMeasurements)
         ELSE 0,
       totalAreaInAcres |-> Rounded(100 * totalArea, 4047),
       totalAreaInHectares |-> Rounded(totalArea, 100),
       avgPointsPerMeasurement |->
         IF totalMeasurements > 0
         THEN Rounded(10 * totalPoints, totalMeasurements)
         ELSE 0,
       totalSkippedPoints |-> totalSkippedPoints,
       avgAccuracy |->
         IF totalMeasurements > 0
         THEN Rounded(Total(ms, "avgAccuracy"), totalMeasurements)
         ELSE 0,
       dataQuality |-> dataQuality(totalPoints, totalSkippedPoints)]

(* GET /api/stats (lines 105-145) *)
getStats ==
  /\ response' = Answer("GET /api/stats", 0, 200, statsOf(serverMeasurements))
  /\ UNCHANGED <<serverMeasurements, measurementId, component, tracker>>

ServerNext ==
  \/ \E body \in Bodies, now \in 1..MaxClock : postMeasurement(body, now)
  \/ getMeasurements
  \/ \E id \in RequestIds : getMeasurement(id)
  \/ \E id \in RequestIds : deleteMeasurement(id)
  \/ getStats

ServerSpec == Init /\ [][ServerNext]_vars

----------------------------------------------------------------------------
(* Long sessions.  MAX_COORDINATES accepted points are out of reach of     *)
(* exhaustive search, so the trimming of lines 317-323 is exercised with   *)
(* the same code at a capacity of MaxCap + 1 points: a session walks round *)
(* a square of 6 m sides, re-reading a corner now and then, until the live *)
(* distance reaches MaxLegs sides.                                         *)

ShortCapacity == MaxCap + 1

LongFixes == {Fix(0, 0, 5), Fix(0, 12, 6), Fix(12, 12, 7), Fix(12, 0, 8)}

(* A session in progress that has accepted its first fix. *)
LongInit ==
  /\ geolocation = TRUE
  /\ serverMeasurements = <<>>
  /\ measurementId = 1
  /\ response = NoResponse
  /\ TrackerInit
  /\ skippedPointsCount = 0
  /\ coordinates = <<newPointOf(Fix(0, 0, 5))>>
  /\ lastRecordedPoint = <<coordinates[1]>>
  /\ cumulativeDistance = 0
  /\ currentDistance = 0
  /\ currentMeasurement = 1
  /\ measurements = <<>>
  /\ sessions = 1
  /\ isTracking = TRUE
  /\ watchId = 1
  /\ intervalRef = 1
  /\ watches = {1}
  /\ intervals = {}
  /\ effectWatchId = 1
  /\ currentPosition = [s \in SessionIds |-> IF s = 1 THEN <<Fix(0, 0, 5)>> ELSE <<>>]
  /\ gpsAccuracy = <<5>>
  /\ isGpsReady = TRUE
  /\ error = ""
  /\ results = <<>>
  /\ showInstructions = FALSE

(* The interval callback of the session in progress (lines 268-272) with   *)
(* the array capped at ShortCapacity.                                      *)
ShortTick ==
  /\ isTracking
  /\ intervalRef # 0
  /\ currentPosition[intervalRef] # <<>>
  /\ currentDistance < MaxLegs * 6000
  /\ skippedPointsCount <= MaxSkipped
  /\ recordGPSPointUpTo(currentPosition[intervalRef][1], ShortCapacity)
  /\ Render(currentPosition)
  /\ UNCHANGED <<isTracking, watchId, error, results, gpsAccuracy,
                 showInstructions, measurements, currentMeasurement,
                 isGpsReady, intervalRef, sessions, geolocation, server, tracker>>

LongNext ==
  \/ \E w \in SessionIds, position \in LongFixes : watchSuccess(w, position)
  \/ ShortTick
  \/ FlushPassiveEffects
  \/ stopTracking
  \/ discardCurrentMeasurement

LongSpec == LongInit /\ [][LongNext]_vars

----------------------------------------------------------------------------
(* The map-based tracker (src/client/src/components/DistanceCalculator.js). *)
(* A coordinate is the pair <<latitude, longitude>> in the grid steps of   *)
(* the fixes, totalDistance is millimetres.                                *)

(* The fixes its watch can deliver; the last is read with poor accuracy,   *)
(* which this component does not look at.                                  *)
TrackerFixes == {Fix(0, 0, 5), Fix(0, 12, 5), Fix(12, 0, 30)}

(* haversineDistance(coord1, coord2) of lines 6-19 *)
coordDistance(coord1, coord2) ==
  haversineDistance(coord1[1], coord1[2], coord2[1], coord2[2])

(* How often React runs the updater passed to setCoordinates (lines        *)
(* 58-68): once, or twice when it re-runs updaters to expose impure ones   *)
(* (StrictMode in a development build).  The updater calls                 *)
(* setTotalDistance, so every run queues one more addition.                *)
UpdaterRuns == {1, 2}

(* startTracking (lines 46-78); the start button is rendered while         *)
(* isTracking is false (lines 99-100).                                     *)
trackerStartTracking ==
  /\ ~trackerIsTracking
  /\ trackerWatchCount < MaxSessions
  /\ trackerCoordinates' = <<>>
  /\ totalDistance' = 0
  /\ IF geolocation
     THEN /\ trackerError' = ""
          /\ trackerWatchCount' = trackerWatchCount + 1
          /\ trackerWatches' = trackerWatches \cup {trackerWatchCount'}
          /\ trackerWatchId' = trackerWatchCount'
          /\ trackerIsTracking' = TRUE
     ELSE /\ trackerError' = "unsupported"
          /\ UNCHANGED <<trackerWatchCount, trackerWatches, trackerWatchId,
                         trackerIsTracking>>
  /\ UNCHANGED <<currentPos, component, server>>

(* totalDistance after the queued additions of lines 61-65 *)
Advanced(newCoords, runs) ==
  IF Len(newCoords) > 1
  THEN totalDistance
       + runs * coordDistance(newCoords[Len(newCoords) - 1],
                              newCoords[Len(newCoords)])
  ELSE totalDistance

(* The success callback of watch w (lines 53-69) *)
trackerWatchSuccess(w, position) ==
  LET newCoord == <<position.latitude, position.longitude>>
      newCoords == Append(trackerCoordinates, newCoord)
  IN  /\ w \in trackerWatches
      /\ Len(trackerCoordinates) < MaxFixes
      /\ currentPos' = <<newCoord>>
      /\ trackerCoordinates' = newCoords
      /\ \E runs \in UpdaterRuns : totalDistance' = Advanced(newCoords, runs)
      /\ UNCHANGED <<trackerError, trackerWatchId, trackerIsTracking,
                     trackerWatches, trackerWatchCount, component, server>>

(* The error callback of watch w (line 70) *)
trackerWatchError(w) ==
  /\ w \in trackerWatches
  /\ trackerError' = "err.message"
  /\ UNCHANGED <<trackerCoordinates, trackerWatchId, trackerIsTracking,
                 totalDistance, currentPos, trackerWatches, trackerWatchCount,
                 component, server>>

(* stopTracking (lines 80-86); the stop button is rendered while           *)
(* isTracking is true (lines 101-102).                                     *)
trackerStopTracking ==
  /\ trackerIsTracking
  /\ IF trackerWatchId # 0
     THEN /\ trackerWatches' = trackerWatches \ {trackerWatchId}
          /\ trackerWatchId' = 0
     ELSE UNCHANGED <<trackerWatches, trackerWatchId>>
  /\ trackerIsTracking' = FALSE
  /\ UNCHANGED <<trackerCoordinates, trackerError, totalDistance, currentPos,
                 trackerWatchCount, component, server>>

TrackerNext ==
  \/ trackerStartTracking
  \/ \E w \in 1..MaxSessions, position \in TrackerFixes :
       trackerWatchSuccess(w, position)
  \/ \E w \in 1..MaxSessions : trackerWatchError(w)
  \/ trackerStopTracking

TrackerSpec == Init /\ [][TrackerNext]_vars

----------------------------------------------------------------------------
(* Steps and states the claims speak of *)

(* The interval callback of session s ran on a delivered fix. *)
Evaluates(s) ==
  /\ currentPosition[s] # <<>>
  /\ Tick(s) \/ (s = intervalRef /\ SampleTick)

Sampled(s) == currentPosition[s][1]

IsJitter(position) ==
  /\ lastRecordedPoint # <<>>
  /\ haversineDistance(lastRecordedPoint[1].lat, lastRecordedPoint[1].lng,
                       position.latitude, position.longitude)
       < MIN_DISTANCE_THRESHOLD

recorded == <<coordinates, skippedPointsCount, currentDistance>>

(* The last session was ended by stopTracking and none has started since. *)
Stopped == sessions > 0 /\ ~isTracking /\ watchId = 0

(* The last session was ended by a provider error and none has started     *)
(* since: the error callback leaves watchId alone.                         *)
Halted == ~isTracking /\ watchId # 0

----------------------------------------------------------------------------
(* C1: stopTracking clears the session's watch and timer; once it has      *)
(* completed no watch or interval is left, and no tick and no fix callback *)
(* changes the accepted sequence, the skip counter or the live distance,   *)
(* in a first session or a later one.                                      *)
C1_StopQuiesces ==
  /\ [][stopTracking => (watchId \notin watches' /\ intervalRef \notin intervals')]_vars
  /\ [](Stopped => (watches = {} /\ intervals = {}))
  /\ [][(Stopped /\ (\/ \E s \in SessionIds : Tick(s)
                     \/ \E w \in SessionIds, position \in Positions :
                           watchSuccess(w, position)))
          => UNCHANGED recorded]_vars

C1_Witness == Stopped /\ sessions = 2 /\ coordinates # <<>>

(* C2: a provider error ends tracking at once; while the session stays     *)
(* halted no tick changes the accepted sequence, the skip counter or the   *)
(* live distance, and nothing is appended to the results list.             *)
C2_ProviderErrorHalts ==
  /\ [][(\E w \in SessionIds, code \in ErrorCodes : watchError(w, code))
          => ~isTracking']_vars
  /\ [][Halted => /\ measurements' = measurements
                  /\ (\E s \in SessionIds : Tick(s)) => UNCHANGED recorded]_vars

C2_Witness ==
  /\ Halted
  /\ error \in {ErrorMessage(code) : code \in ErrorCodes}
  /\ coordinates # <<>>
  /\ currentPosition[watchId] # <<>>

(* C3: from startTracking until stopTracking or a provider error the       *)
(* recording timer of the session stays armed.                             *)
C3_TimerStaysArmed == isTracking => (intervalRef # 0 /\ intervalRef \in intervals)

(* C4: startTracking leaves an empty sequence, zero distance, zero skips   *)
(* and no last point; afterwards    a closure is written only by its own  *)
(* watch, and the sequence, the skip counter and the distance change only  *)
(* when the callback of the session in progress evaluates its own fix (or  *)
(* the user starts, discards or measures again).                           *)
C4_SessionsShareNothing ==
  [][/\ sessions' # sessions =>
          /\ coordinates' = <<>>
          /\ currentDistance' = 0
          /\ cumulativeDistance' = 0
          /\ skippedPointsCount' = 0
          /\ lastRecordedPoint' = <<>>
     /\ \A s \in SessionIds :
          currentPosition'[s] \notin {currentPosition[s], <<>>} =>
             \E position \in Positions : watchSuccess(s, position)
     /\ recorded' # recorded =>
          \/ startTracking
          \/ discardCurrentMeasurement
          \/ startNewMeasurement
          \/ (isTracking /\ watchId # 0 /\ Evaluates(watchId))]_vars

C4_Witness ==
  /\ sessions = 2
  /\ isTracking
  /\ 1 \in watches
  /\ currentPosition[1] # <<>>
  /\ coordinates = <<>>
  /\ measurements = <<>>

(* C5: a fix whose accuracy is above ACCURACY_THRESHOLD is never recorded, *)
(* whatever its distance from the last accepted point and whether or not   *)
(* there is one: sequence, last point and live distance stay as they are.  *)
C5_LowAccuracyRejected ==
  [][\A s \in SessionIds :
       (Evaluates(s) /\ Sampled(s).accuracy > ACCURACY_THRESHOLD)
         => UNCHANGED <<coordinates, lastRecordedPoint, currentDistance,
                        cumulativeDistance>>]_vars

C5_Witness ==
  /\ isTracking
  /\ lastRecordedPoint = <<>>
  /\ skippedPointsCount > 0
  /\ currentPosition[watchId] # <<>>
  /\ Sampled(watchId).accuracy > ACCURACY_THRESHOLD

(* C6: a fix of sufficient accuracy is rejected as jitter exactly when a   *)
(* last accepted point exists less than MIN_DISTANCE_THRESHOLD away, and   *)
(* is accepted at that distance or beyond; a jitter rejection leaves the   *)
(* sequence, the last point and the live distance as they are.             *)
C6_JitterRejectedBelowThreshold ==
  [][\A s \in SessionIds :
       (Evaluates(s) /\ Sampled(s).accuracy <= ACCURACY_THRESHOLD)
         => IF IsJitter(Sampled(s))
            THEN UNCHANGED <<coordinates, lastRecordedPoint, currentDistance,
                             cumulativeDistance>>
            ELSE /\ coordinates' = Append(coordinates, newPointOf(Sampled(s)))
                 /\ lastRecordedPoint' = <<newPointOf(Sampled(s))>>]_vars

C6_Witness ==
  /\ isTracking
  /\ Len(coordinates) = 2
  /\ haversineDistance(coordinates[1].lat, coordinates[1].lng,
                       coordinates[2].lat, coordinates[2].lng)
       = MIN_DISTANCE_THRESHOLD
  /\ skippedPointsCount > 0

(* C7: with no last accepted point, a fix whose accuracy is not above the  *)
(* threshold becomes the first element of the sequence and the last        *)
(* accepted point, and adds nothing to the live distance.                  *)
C7_FirstFixAccepted ==
  [][\A s \in SessionIds :
       (/\ Evaluates(s)
        /\ lastRecordedPoint = <<>>
        /\ Sampled(s).accuracy <= ACCURACY_THRESHOLD)
         => /\ coordinates' = <<newPointOf(Sampled(s))>>
            /\ lastRecordedPoint' = <<newPointOf(Sampled(s))>>
            /\ UNCHANGED <<currentDistance, cumulativeDistance>>]_vars

C7_Witness ==
  /\ isTracking
  /\ Len(coordinates) = 1
  /\ coordinates[1].accuracy = ACCURACY_THRESHOLD
  /\ currentDistance = 0

(* C8: a rejection (low accuracy or jitter) adds exactly one to the skip   *)
(* counter and an acceptance leaves it alone; the counter otherwise        *)
(* changes only by being reset to 0, by startTracking or by                *)
(* discardCurrentMeasurement.                                              *)
C8_SkipCounter ==
  [][/\ \A s \in SessionIds :
          Evaluates(s) =>
            skippedPointsCount' =
              IF Sampled(s).accuracy > ACCURACY_THRESHOLD \/ IsJitter(Sampled(s))
              THEN skippedPointsCount + 1
              ELSE skippedPointsCount
     /\ skippedPointsCount' # skippedPointsCount =>
          \/ \E s \in SessionIds : Evaluates(s)
          \/ skippedPointsCount' = 0 /\ startTracking
          \/ skippedPointsCount' = 0 /\ discardCurrentMeasurement]_vars

C8_Witness == isTracking /\ skippedPointsCount = 2 /\ Len(coordinates) = 1

(* C9: stopping with fewer than 3 accepted points appends no result and    *)
(* leaves the latest result alone, sets the insufficient-points error and  *)
(* still cancels the watch and the timer; while that error stands no       *)
(* result is appended.                                                     *)
C9_InsufficientPoints ==
  /\ [][(stopTracking /\ Len(coordinates) < 3)
          => /\ measurements' = measurements
             /\ results' = results
             /\ error' = "min_points"
             /\ ~isTracking'
             /\ watchId \notin watches'
             /\ intervalRef \notin intervals']_vars
  /\ [][error = "min_points" => measurements' = measurements]_vars

C9_Witness ==
  /\ error = "min_points"
  /\ Len(coordinates) = 2
  /\ watches = {}
  /\ intervals = {}

(* C10: the results list grows by exactly one entry when a session is      *)
(* stopped with at least 3 accepted points and changes in no other step:   *)
(* no entry is modified, moved or removed, and there is at most one entry  *)
(* per stopped session.                                                    *)
C10_ResultsAppendOnly ==
  /\ [][/\ (stopTracking /\ Len(coordinates) >= 3) =>
             Len(measurements') = Len(measurements) + 1
        /\ measurements' # measurements =>
             /\ stopTracking
             /\ Len(coordinates) >= 3
             /\ Len(measurements') = Len(measurements) + 1
             /\ SubSeq(measurements', 1, Len(measurements)) = measurements]_vars
  /\ [](Len(measurements) + (IF isTracking THEN 1 ELSE 0) <= sessions)

C10_Witness == Len(measurements) = 2 /\ ~isTracking

----------------------------------------------------------------------------
(* Vocabulary of the claims about closing and measuring *)

Gap(p, q) == haversineDistance(p.lat, p.lng, q.lat, q.lng)

ClosingGap(c) == Gap(c[1], c[Len(c)])

(* A sequence recordGPSPoint can have accepted: no two consecutive points  *)
(* closer than the jitter threshold.                                       *)
AcceptedWalk(c) ==
  \A i \in 1..(Len(c) - 1) : Gap(c[i], c[i + 1]) >= MIN_DISTANCE_THRESHOLD

Rotated(c, k) == [i \in 1..Len(c) |-> c[((i + k - 1) % Len(c)) + 1]]

Reversed(c) == [i \in 1..Len(c) |-> c[Len(c) + 1 - i]]

AreaOfWalk(c) == calculateArea(createClosedPolygon(c), FALSE)

(* The extent of a set of grid coordinates. *)
Span(S) == CHOOSE d \in {a - b : a \in S, b \in S} :
             \A a \in S, b \in S : a - b <= d

(* 0.01 degree is 2223.898 grid steps. *)
ExceedsHundredthDegree(span) == span * 1000 > 2223898

WideField(c) ==
  \/ ExceedsHundredthDegree(Span({c[i].lat : i \in 1..Len(c)}))
  \/ ExceedsHundredthDegree(Span({c[i].lng : i \in 1..Len(c)}))

(* A result is on show and coordinates is the walk it was computed from. *)
Measured == results # <<>> /\ Len(coordinates) >= 3

(* C11: for at least 3 accepted points createClosedPolygon appends the     *)
(* first point exactly when the first-to-last distance is strictly above   *)
(* POLYGON_CLOSURE_THRESHOLD and returns the sequence as it is otherwise:  *)
(* N or N+1 points, the original points first and in order, and the ends   *)
(* identical or within the threshold of each other.                        *)
C11_ClosedPolygon ==
  Len(coordinates) >= 3 =>
    LET N == Len(coordinates)
        closed == createClosedPolygon(coordinates)
    IN  /\ closed = IF ClosingGap(coordinates) > POLYGON_CLOSURE_THRESHOLD
                    THEN Append(coordinates, coordinates[1])
                    ELSE coordinates
        /\ Len(closed) \in {N, N + 1}
        /\ SubSeq(closed, 1, N) = coordinates
        /\ \/ closed[1] = closed[Len(closed)]
           \/ ClosingGap(closed) <= POLYGON_CLOSURE_THRESHOLD
        /\ results # <<>> => results[1].closedPolygonPoints = Len(closed)

C11_Witness ==
  /\ Measured
  /\ ClosingGap(coordinates) = POLYGON_CLOSURE_THRESHOLD
  /\ results[1].closedPolygonPoints = Len(coordinates)

(* C12: the area of a recorded walk is the same when the walk is started   *)
(* at any other of its points and when it is walked in the opposite order. *)
C12_AreaRotationInvariant ==
  Len(coordinates) >= 3 =>
    /\ AreaOfWalk(Reversed(coordinates)) = AreaOfWalk(coordinates)
    /\ \A k \in 1..(Len(coordinates) - 1) :
         AcceptedWalk(Rotated(coordinates, k)) =>
           AreaOfWalk(Rotated(coordinates, k)) = AreaOfWalk(coordinates)

AreaFigures == {"areaSquareMeters", "acres", "hectares", "guntalu"}

C14_FallbackMarked ==
  [][(/\ stopTracking
      /\ ~TooFewPoints(coordinates)
      /\ WideField(createClosedPolygon(coordinates))
      /\ newResultOf(coordinates, TRUE) # newResultOf(coordinates, FALSE)
      /\ results' = <<newResultOf(coordinates, TRUE)>>)
       => \E f \in (DOMAIN results'[1]) \ AreaFigures :
            results'[1][f] # newResultOf(coordinates, FALSE)[f]]_vars

(* C15: the perimeter of a result is the sum of the distances over the     *)
(* consecutive pairs of the polygon closed at stop, the closing edge       *)
(* included when the first point was appended, whatever the live distance  *)
(* stands at.                                                              *)
RECURSIVE EdgeSum(_)
EdgeSum(c) ==
  IF Len(c) < 2 THEN 0
  ELSE EdgeSum(SubSeq(c, 1, Len(c) - 1)) + Gap(c[Len(c) - 1], c[Len(c)])

ClosedRing(c) ==
  IF ClosingGap(c) > POLYGON_CLOSURE_THRESHOLD THEN c \o <<c[1]>> ELSE c

C15_PerimeterOfClosedPolygon ==
  [][(stopTracking /\ Len(coordinates) >= 3) =>
       /\ results'[1].distance = Rounded(EdgeSum(ClosedRing(coordinates)), 10)
       /\ measurements'[Len(measurements')].distance = results'[1].distance]_vars

C15_Witness ==
  /\ Measured
  /\ results[1].closedPolygonPoints = Len(coordinates) + 1
  /\ results[1].distance # Rounded(currentDistance, 10)
  /\ results[1].distance =
       Rounded(currentDistance + ClosingGap(coordinates), 10)

(* C16: calculateAverageResults is null while fewer than 2 results are     *)
(* stored; from 2 on it gives the mean area and the mean perimeter of all  *)
(* stored results, to the last digit shown, with measurementCount their    *)
(* number; two results of one area average to exactly that area.           *)
IsNearest(m, sum, n) == 2 * sum - n < 2 * n * m /\ 2 * n * m <= 2 * sum + n

C16_AverageNeedsTwo ==
  LET n == Len(measurements)
      average == calculateAverageResults
  IN  IF n < 2 THEN average = <<>>
      ELSE /\ average # <<>>
           /\ average[1].measurementCount = n
           /\ IsNearest(average[1].areaSquareMeters,
                        SumOver(measurements, "areaSquareMeters", 1), n)
           /\ IsNearest(average[1].distance,
                        SumOver(measurements, "distance", 1), n)
           /\ (\A i \in 1..n : measurements[i].areaSquareMeters
                                 = measurements[1].areaSquareMeters)
                => average[1].areaSquareMeters
                     = measurements[1].areaSquareMeters

C16_Witness ==
  /\ Len(measurements) = 2
  /\ measurements[1].areaSquareMeters = measurements[2].areaSquareMeters
  /\ measurements[1].areaSquareMeters > 0
  /\ calculateAverageResults[1].measurementCount = 2

(* C17: the acres, hectares and guntalu of the average are the mean area   *)
(* divided by 4047, 10000 and 101.17, the constants of the single result,  *)
(* and not the means of the stored acres, hectares and guntalu.            *)
C17_ConversionsFromMeanArea ==
  Len(measurements) >= 2 =>
    LET n == Len(measurements)
        areaSum == SumOver(measurements, "areaSquareMeters", 1)
        average == calculateAverageResults[1]
    IN  /\ average.acres = RoundedScaled(areaSum, 100, n * 4047)
        /\ average.hectares = RoundedScaled(areaSum, 1, n * 100)
        /\ average.guntalu = RoundedScaled(areaSum, 10000, n * 10117)

C17_Witness ==
  /\ Len(measurements) = 2
  /\ calculateAverageResults[1].acres
       # Rounded(SumOver(measurements, "acres", 1), 2)

(* C18: a tick does not use up the fix it evaluates.  A fix accepted at    *)
(* one tick is still there at the next, is then less than                  *)
(* MIN_DISTANCE_THRESHOLD (0 m) from the last accepted point, and, when    *)
(* evaluated again, is rejected and counted; a fix of low accuracy is      *)
(* rejected and counted at every tick that finds it.                       *)
C18_SameFixEvaluatedAgain ==
  [][\A s \in SessionIds :
       Evaluates(s) =>
         /\ currentPosition'[s] = currentPosition[s]
         /\ coordinates' # coordinates => IsJitter(Sampled(s))'
         /\ (/\ lastRecordedPoint # <<>>
             /\ newPointOf(Sampled(s)) = lastRecordedPoint[1])
              => /\ skippedPointsCount' = skippedPointsCount + 1
                 /\ UNCHANGED <<coordinates, currentDistance>>
         /\ Sampled(s).accuracy > ACCURACY_THRESHOLD
              => /\ skippedPointsCount' = skippedPointsCount + 1
                 /\ UNCHANGED <<coordinates, currentDistance>>]_vars

C18_Witness ==
  /\ isTracking
  /\ Len(coordinates) = 1
  /\ skippedPointsCount = 2
  /\ currentPosition[watchId] # <<>>
  /\ newPointOf(Sampled(watchId)) = coordinates[1]
  /\ lastRecordedPoint = <<coordinates[1]>>

(* C19: coordinates never holds more than MAX_COORDINATES points, and an   *)
(* acceptance leaves the most recent MAX_COORDINATES accepted points in    *)
(* their order; the trimming does so for every capacity, the ones          *)
(* a session of this size exceeds included.                                *)
KeepsMostRecent(kept, grown, cap) ==
  /\ Len(kept) = IF Len(grown) > cap THEN cap ELSE Len(grown)
  /\ \A i \in 1..Len(kept) : kept[i] = grown[Len(grown) - Len(kept) + i]

C20_LiveDistance ==
  /\ [](isTracking => /\ currentDistance = EdgeSum(coordinates)
                      /\ Len(coordinates) < 2 => currentDistance = 0)
  /\ [][(isTracking /\ isTracking' /\ sessions' = sessions)
          => currentDistance' >= currentDistance]_vars
  /\ [][\A s \in SessionIds :
          (Evaluates(s) /\ coordinates' = coordinates)
            => currentDistance' = currentDistance]_vars

C20_Witness ==
  /\ isTracking
  /\ sessions = 2
  /\ Len(coordinates) = 3
  /\ skippedPointsCount = 0
  /\ currentDistance = 2 * MIN_DISTANCE_THRESHOLD

(* C21: in every result pointsRecorded is the number of accepted points    *)
(* held at stop, skippedPoints is the skip counter at stop, and            *)
(* avgAccuracy is the mean accuracy of the accepted points, to the digit   *)
(* shown, and so not above ACCURACY_THRESHOLD.                             *)
RECURSIVE AccuracyTotal(_)
AccuracyTotal(c) ==
  IF c = <<>> THEN 0 ELSE c[1].accuracy + AccuracyTotal(Tail(c))

C21_ResultCounts ==
  [][(stopTracking /\ Len(coordinates) >= 3) =>
       LET result == results'[1]
       IN  /\ result = measurements'[Len(measurements')]
           /\ result.pointsRecorded = Len(coordinates)
           /\ result.skippedPoints = skippedPointsCount
           /\ IsNearest(result.avgAccuracy, 10 * AccuracyTotal(coordinates),
                        Len(coordinates))
           /\ result.avgAccuracy <= 10 * ACCURACY_THRESHOLD]_vars

C21_Witness ==
  /\ Measured
  /\ results[1].pointsRecorded = 3
  /\ results[1].closedPolygonPoints = 4
  /\ results[1].skippedPoints = 1
  /\ results[1].avgAccuracy = 60

(* C26: the area of a closed polygon is the shoelace area of the whole     *)
(* ring, the edge from the last vertex back to the first included, also    *)
(* when the ends are within the closure threshold and no point was         *)
(* appended; moving all vertices by one offset does not change it.         *)
Cross(p, q) == (p.lng * q.lat) - (q.lng * p.lat)

RECURSIVE RingSum(_, _)
RingSum(c, i) ==
  IF i > Len(c) THEN 0
  ELSE Cross(c[i], c[(i % Len(c)) + 1]) + RingSum(c, i + 1)

Moved(c, dLat, dLng) ==
  [i \in 1..Len(c) |-> [c[i] EXCEPT !.lat = @ + dLat, !.lng = @ + dLng]]

RingArea(c) ==
  IF useProjForLargeFields(c)
  THEN RoundedDown(Abs(RingSum(c, 1)), 12490, 10)
  ELSE RoundedDown(Abs(RingSum(c, 1)), 12456, 10)

C26_AreaOfWholeRing ==
  Len(coordinates) >= 3 =>
    LET closed == createClosedPolygon(coordinates)
    IN  /\ calculateArea(closed, FALSE) = RingArea(closed)
        /\ Len(closed) = Len(coordinates) =>
             calculateArea(Moved(closed, 1, 1), FALSE)
               = calculateArea(closed, FALSE)

(* C27: the measurementNumber values of the stored results are pairwise    *)
(* distinct and increase along the list.                                   *)
C27_MeasurementNumbersIncrease ==
  \A i \in 1..Len(measurements), j \in 1..Len(measurements) :
    i < j => measurements[i].measurementNumber
               < measurements[j].measurementNumber

(* C28: within a session every evaluation of a delivered fix adds exactly  *)
(* one to the accepted points or to the skip counter, never both, and      *)
(* nothing else changes their sum while the session is tracked: the sum is *)
(* the number of ticks that found a fix.                                   *)
Outcomes == Len(coordinates) + skippedPointsCount

C28_OneOutcomePerTick ==
  /\ [][\A s \in SessionIds :
          Evaluates(s) =>
            /\ Outcomes' = Outcomes + 1
            /\ \/ Len(coordinates') = Len(coordinates)
               \/ skippedPointsCount' = skippedPointsCount]_vars
  /\ [][(isTracking /\ isTracking' /\ sessions' = sessions
         /\ Outcomes' # Outcomes)
          => \E s \in SessionIds : Evaluates(s)]_vars
  /\ [][sessions' # sessions => Outcomes' = 0]_vars

C28_Witness ==
  /\ isTracking
  /\ sessions = 2
  /\ Len(coordinates) = 2
  /\ skippedPointsCount = 1
  /\ coordinates[2].accuracy = ACCURACY_THRESHOLD

Accepted == Total(serverMeasurements, "pointsRecorded")

Skipped == Total(serverMeasurements, "skippedPoints")

C22_DataQuality ==
  response.request = "GET /api/stats" =>
    /\ response.status = 200
    /\ Skipped = 0 => response.data.dataQuality = 1000
    /\ Skipped > 0 =>
         IsNearest(response.data.dataQuality, 1000 * Accepted,
                   Accepted + Skipped)

C22_Witness ==
  /\ response.request = "GET /api/stats"
  /\ Accepted = 4
  /\ Skipped = 3
  /\ response.data.dataQuality = 571

(* C23: every stored measurement carries the id the server assigned to it  *)
(* and a timestamp of the server's clock, whatever the request body held;  *)
(* stored ids are pairwise distinct and an id is never assigned again.     *)
C23_ServerAssignedIds ==
  /\ \A i \in 1..Len(serverMeasurements) :
       /\ serverMeasurements[i].id \in 1..(measurementId - 1)
       /\ serverMeasurements[i].timestamp \in 1..MaxClock
  /\ \A i \in 1..Len(serverMeasurements), j \in 1..Len(serverMeasurements) :
       i # j => serverMeasurements[i].id # serverMeasurements[j].id

(* C24: a delete removes exactly the stored measurement with that id and   *)
(* leaves the others as they are; a get or delete of an id that is not     *)
(* stored answers 404 and leaves the store alone; after a successful       *)
(* delete a get of that id answers 404.                                    *)
IsStored(id) == \E i \in 1..Len(serverMeasurements) : serverMeasurements[i].id = id

Others(ms, id) == SelectSeq(ms, LAMBDA m : m.id # id)

C24_DeleteById ==
  /\ [][\A id \in RequestIds :
          deleteMeasurement(id) =>
            IF IsStored(id)
            THEN /\ response'.status = 200
                 /\ serverMeasurements' = Others(serverMeasurements, id)
            ELSE /\ response'.status = 404
                 /\ serverMeasurements' = serverMeasurements]_vars
  /\ [][\A id \in RequestIds :
          getMeasurement(id) =>
            /\ serverMeasurements' = serverMeasurements
            /\ response'.status = IF IsStored(id) THEN 200 ELSE 404]_vars
  /\ [][\A id \in RequestIds :
          (response.request = "DELETE /api/measurements/:id"
           /\ response.id = id /\ response.status = 200
           /\ getMeasurement(id)) => response'.status = 404]_vars

(* C25: the statistics are computed over the store as it is: the number of *)
(* stored measurements and the sum of their areas, deleted measurements    *)
(* not counted; over an empty store every total and average is 0 and the   *)
(* answer is still a success.                                              *)
RECURSIVE AreaTotal(_)
AreaTotal(ms) ==
  IF ms = <<>> THEN 0
  ELSE (IF "areaSquareMeters" \in DOMAIN ms[1]
        THEN ms[1].areaSquareMeters ELSE 0) + AreaTotal(Tail(ms))

C25_StatsOverCurrentStore ==
  response.request = "GET /api/stats" =>
    /\ response.status = 200
    /\ response.data.totalMeasurements = Len(serverMeasurements)
    /\ response.data.totalArea = AreaTotal(serverMeasurements)
    /\ serverMeasurements = <<>> =>
         /\ response.data.totalArea = 0
         /\ response.data.averageArea = 0
         /\ response.data.totalAreaInAcres = 0
         /\ response.data.totalAreaInHectares = 0
         /\ response.data.avgPointsPerMeasurement = 0
         /\ response.data.totalSkippedPoints = 0
         /\ response.data.avgAccuracy = 0

C25_Witness ==
  /\ response.request = "GET /api/stats"
  /\ measurementId = 4
  /\ Len(serverMeasurements) = 2
  /\ response.data.totalMeasurements = 2
  /\ response.data.totalArea = 1495 + 1495

(* C30: when the array is full, accepting a point drops the oldest one but *)
(* the accepted point becomes the last recorded point and the live         *)
(* distance grows by its distance from the previous one, as it does        *)
(* without trimming; at stop the closing edge, perimeter, area,            *)
(* pointsRecorded and avgAccuracy are those of the retained points alone,  *)
(* closed back to the oldest retained point.                               *)
Accepts ==
  /\ ShortTick
  /\ ~PoorAccuracy(Sampled(intervalRef).accuracy)
  /\ ~IsJitter(Sampled(intervalRef))

C30_TrimmingPolicy ==
  /\ [][Accepts =>
          LET newPoint == newPointOf(Sampled(intervalRef))
              grown == Append(coordinates, newPoint)
          IN  /\ KeepsMostRecent(coordinates', grown, ShortCapacity)
              /\ lastRecordedPoint' = <<newPoint>>
              /\ coordinates'[Len(coordinates')] = newPoint
              /\ currentDistance' =
                   currentDistance + Gap(lastRecordedPoint[1], newPoint)
              /\ cumulativeDistance' = currentDistance']_vars
  /\ [][(stopTracking /\ Len(coordinates) >= 3) =>
          LET result == results'[1]
              closed == ClosedRing(coordinates)
          IN  /\ closed[Len(closed)] = coordinates[1]
                 \/ ClosingGap(coordinates) <= POLYGON_CLOSURE_THRESHOLD
              /\ result.closedPolygonPoints = Len(closed)
              /\ result.distance = Rounded(EdgeSum(closed), 10)
              /\ result.areaSquareMeters = Rounded(AreaOfWalk(coordinates), 100)
              /\ result.pointsRecorded = Len(coordinates)
              /\ IsNearest(result.avgAccuracy, 10 * AccuracyTotal(coordinates),
                           Len(coordinates))]_vars

C30_Witness ==
  /\ Measured
  /\ Len(coordinates) = ShortCapacity
  /\ results[1].pointsRecorded = ShortCapacity
  /\ currentDistance > EdgeSum(coordinates)
  /\ results[1].distance # Rounded(currentDistance + ClosingGap(coordinates), 10)

(* C31: a tick of a session to which no fix has been delivered evaluates   *)
(* nothing: no point is appended, the skip counter and the live distance   *)
(* stay as they are; as long as no fix is delivered to the session in      *)
(* progress its accepted points are empty and its counter and distance 0.  *)
NoFixYet(s) == currentPosition[s] = <<>>

C31_TickBeforeFirstFix ==
  /\ [][\A s \in SessionIds :
          (Tick(s) /\ NoFixYet(s)) =>
            UNCHANGED <<coordinates, skippedPointsCount, currentDistance,
                        lastRecordedPoint, cumulativeDistance>>]_vars
  /\ []((isTracking /\ sessions > 0 /\ NoFixYet(sessions)) =>
          /\ coordinates = <<>>
          /\ skippedPointsCount = 0
          /\ currentDistance = 0)

C31_Witness ==
  /\ isTracking
  /\ sessions = 2
  /\ measurements # <<>>
  /\ sessions \in intervals
  /\ NoFixYet(sessions)
  /\ coordinates = <<>>

(* C32: the list request answers with every stored measurement, newest     *)
(* first by timestamp, and leaves the stored measurements what they were:  *)
(* a get or delete of any id and the statistics come out the same after it *)
(* as before it.                                                           *)
Count(ms, m) == Cardinality({i \in 1..Len(ms) : ms[i] = m})

SameMeasurements(a, b) ==
  /\ Len(a) = Len(b)
  /\ \A i \in 1..Len(a) : Count(a, a[i]) = Count(b, a[i])

Found(ms, id) ==
  IF findIndex(ms, id) = 0 THEN <<>> ELSE <<ms[findIndex(ms, id)]>>

AfterDelete(ms, id) ==
  IF findIndex(ms, id) = 0 THEN ms ELSE splice(ms, findIndex(ms, id))

C32_ListLeavesStoreAlone ==
  [][getMeasurements =>
       /\ response'.status = 200
       /\ SameMeasurements(response'.data, serverMeasurements)
       /\ \A i \in 1..Len(response'.data), j \in 1..Len(response'.data) :
            i < j => response'.data[i].timestamp >= response'.data[j].timestamp
       /\ SameMeasurements(serverMeasurements', serverMeasurements)
       /\ statsOf(serverMeasurements') = statsOf(serverMeasurements)
       /\ \A id \in RequestIds :
            /\ Found(serverMeasurements', id) = Found(serverMeasurements, id)
            /\ SameMeasurements(AfterDelete(serverMeasurements', id),
                                AfterDelete(serverMeasurements, id))]_vars

(* C33: in the map-based tracker every fix delivered while tracking is     *)
(* appended as it is, totalDistance is always the sum of the distances     *)
(* between consecutive coordinates, startTracking empties the coordinates  *)
(* and sets totalDistance to 0, and once stopped nothing is appended.      *)
RECURSIVE PathLength(_)
PathLength(c) ==
  IF Len(c) < 2 THEN 0
  ELSE PathLength(SubSeq(c, 1, Len(c) - 1))
       + coordDistance(c[Len(c) - 1], c[Len(c)])

C33_MapTracker ==
  /\ [][\A w \in 1..MaxSessions, position \in TrackerFixes :
          trackerWatchSuccess(w, position) =>
            /\ trackerIsTracking
            /\ trackerCoordinates' =
                 Append(trackerCoordinates,
                        <<position.latitude, position.longitude>>)]_vars
  /\ [][trackerStartTracking =>
          (trackerCoordinates' = <<>> /\ totalDistance' = 0)]_vars
  /\ [][(~trackerIsTracking /\ ~trackerIsTracking') =>
          trackerCoordinates' = trackerCoordinates]_vars
  /\ [](totalDistance = PathLength(trackerCoordinates))

====
